---- MODULE Spec2Model ----
(***************************************************************************)
(* NextSwapDex maintenance scripts fix_revert.py and                       *)
(* fix_solidity_version.py: an os.walk over a contracts directory, a       *)
(* re.sub on every file whose name ends with ".sol", and a conditional     *)
(* write-back of the file followed by a report line.                       *)
(*                                                                         *)
(* File contents are sequences of bytes, a byte being a one-character      *)
(* string; BadByte stands for a byte that is not valid UTF-8.              *)
(***************************************************************************)
EXTENDS Integers, Sequences, FiniteSets, TLC

\* ------------------------------------------------------------------ bounds
\* Longest file content of the exhaustive inputs, in fragments.
MaxFrags == 5
\* Depth of the deepest directory below the traversal root.
MaxDepth == 3

\* ------------------------------------------------------------- characters
LF == "\n"
CR == "\r"
BadByte == "0xFF"

Upper == {"A","B","C","D","E","F","G","H","I","J","K","L","M",
          "N","O","P","Q","R","S","T","U","V","W","X","Y","Z"}
Lower == {"a","b","c","d","e","f","g","h","i","j","k","l","m",
          "n","o","p","q","r","s","t","u","v","w","x","y","z"}
Digit == {"0","1","2","3","4","5","6","7","8","9"}
Alnum == Upper \cup Lower \cup Digit

ToLower(c) ==
  CASE c = "S" -> "s" [] c = "O" -> "o" [] c = "L" -> "l"
    [] c = "A" -> "a" [] c = "B" -> "b" [] c = "C" -> "c"
    [] OTHER -> c

\* ---------------------------------------------------------------- literals
RevertKw   == <<"r","e","v","e","r","t">>
CallSuffix == <<"(",")",";">>
RevertSp   == <<"r","e","v","e","r","t"," ">>
PragmaHead == <<"p","r","a","g","m","a"," ","s","o","l","i","d","i","t","y"," ">>
OldPragma  == PragmaHead \o <<"=","0",".","8",".","1","5",";">>
NewPragma  == PragmaHead \o <<"^","0",".","8",".","2","0",";">>
DotSol     == <<".","s","o","l">>

Scripts == {"fix_revert", "fix_solidity_version"}

\* ------------------------------------------------------- string primitives
\* s[i..] starts with the literal lit
HasAt(s, i, lit) ==
  /\ i >= 1
  /\ i + Len(lit) - 1 <= Len(s)
  /\ \A k \in 1..Len(lit) : s[i + k - 1] = lit[k]

\* str.endswith(suffix): exact, case-sensitive
EndsWithNoCase(name, suffix) ==
  /\ Len(name) >= Len(suffix)
  /\ \A k \in 1..Len(suffix) :
       ToLower(name[Len(name) - Len(suffix) + k]) = ToLower(suffix[k])

EndsWith(name, suffix) ==
  /\ Len(name) >= Len(suffix)
  /\ \A k \in 1..Len(suffix) : name[Len(name) - Len(suffix) + k] = suffix[k]

IsSol(name) == EndsWith(name, DotSol)

\* ----------------------------------------------------------- text-mode I/O
\* open(..., 'r', encoding='utf-8').read(): UTF-8 decoding fails on an invalid
\* byte; universal newlines turn "\r\n" and a lone "\r" into "\n".
Decodable(bytes) == \A k \in 1..Len(bytes) : bytes[k] # BadByte

RECURSIVE DecodeFrom(_, _)
DecodeFrom(bytes, i) ==
  IF i > Len(bytes) THEN <<>>
  ELSE IF bytes[i] = CR
       THEN IF i < Len(bytes) /\ bytes[i + 1] = LF
            THEN <<LF>> \o DecodeFrom(bytes, i + 2)
            ELSE <<LF>> \o DecodeFrom(bytes, i + 1)
       ELSE <<bytes[i]>> \o DecodeFrom(bytes, i + 1)

Decode(bytes) ==
  IF \A k \in 1..Len(bytes) : bytes[k] # CR THEN bytes ELSE DecodeFrom(bytes, 1)

\* open(..., 'w', encoding='utf-8').write(): "\n" is written as os.linesep.
RECURSIVE EncodeFrom(_, _)
EncodeFrom(text, i) ==
  IF i > Len(text) THEN <<>>
  ELSE IF text[i] = LF
       THEN <<CR, LF>> \o EncodeFrom(text, i + 1)
       ELSE <<text[i]>> \o EncodeFrom(text, i + 1)

Encode(text, os) ==
  IF os = "posix" \/ \A k \in 1..Len(text) : text[k] # LF
  THEN text
  ELSE EncodeFrom(text, 1)

\* ------------------------------------------------------------ the patterns
\* [a-zA-Z0-9]* from position j, greedy: the first position after the run
RECURSIVE IdentEnd(_, _)
IdentEnd(s, j) ==
  IF j <= Len(s) /\ s[j] \in Alnum THEN IdentEnd(s, j + 1) ELSE j

\* r'revert([A-Z][a-zA-Z0-9]*)\(\);' matched at position i: the position of
\* the "(" that closes group 1 (0 when there is no match at i).  The greedy
\* star backtracks from the longest run to the shortest.
RevertGroupEnd(s, i) ==
  IF HasAt(s, i, RevertKw) /\ i + 6 <= Len(s) /\ s[i + 6] \in Upper
  THEN LET ends == {k \in (i + 7)..IdentEnd(s, i + 7) : HasAt(s, k, CallSuffix)}
       IN  IF ends = {} THEN 0
           ELSE CHOOSE k \in ends : \A m \in ends : m <= k
  ELSE 0

\* r"pragma solidity =0\.8\.15;" : every dot is escaped, the match is literal
PragmaAtAnyDot(s, i) ==
  /\ i + Len(OldPragma) - 1 <= Len(s)
  /\ \A k \in 1..Len(OldPragma) :
       OldPragma[k] = "." \/ s[i + k - 1] = OldPragma[k]

PragmaAt(s, i) == HasAt(s, i, OldPragma)

\* The position after the match of the script's pattern at i; 0: no match.
MatchEnd(script, s, i) ==
  IF script = "fix_revert"
  THEN IF RevertGroupEnd(s, i) = 0 THEN 0 ELSE RevertGroupEnd(s, i) + 3
  ELSE IF PragmaAt(s, i) THEN i + Len(OldPragma) ELSE 0

\* The replacement template expanded for the match at i: r'revert \1();' or
\* "pragma solidity ^0.8.20;".
Replacement(script, s, i) ==
  IF script = "fix_revert"
  THEN RevertSp \o SubSeq(s, i + 6, RevertGroupEnd(s, i) - 1) \o CallSuffix
  ELSE NewPragma

\* re.sub(pattern, repl, s): leftmost non-overlapping matches, each replaced
RECURSIVE SubFrom(_, _, _)
SubFrom(script, s, i) ==
  IF i > Len(s) THEN <<>>
  ELSE LET e == MatchEnd(script, s, i)
       IN  IF e > 0
           THEN Replacement(script, s, i) \o SubFrom(script, s, e)
           ELSE <<s[i]>> \o SubFrom(script, s, i + 1)

Sub(script, s) ==
  IF \A i \in 1..Len(s) : MatchEnd(script, s, i) = 0 THEN s ELSE SubFrom(script, s, 1)

\* ------------------------------------------------------------ input trees
RECURSIVE Flatten(_)
Flatten(ss) == IF ss = <<>> THEN <<>> ELSE Head(ss) \o Flatten(Tail(ss))

SeqsUpTo(S, n) == UNION {[1..k -> S] : k \in 0..n}

\* Fragments the exhaustive file contents are concatenated from.
Frags(scr) ==
  IF scr = "fix_revert"
  THEN {RevertKw, <<"X">>, CallSuffix, <<" ">>}
  ELSE {PragmaHead, <<"=","0",".","8",".","1","5",";">>,
        <<"=","0","x","8",".","1","5",";">>, <<"^","0",".","8",".","1","9",";">>}

\* The pragma fragments are whole tokens: two fragments fewer make files of
\* the same length as the revert fragments do.
FragCount(scr) == IF scr = "fix_revert" THEN MaxFrags ELSE MaxFrags - 2

RichContents(scr) == {Flatten(fs) : fs \in SeqsUpTo(Frags(scr), FragCount(scr))}

\* Files with line ends: a match on an LF line, matches on CRLF lines, no match
\* on a CRLF line, and a file that is not valid UTF-8.
MatchLF(scr) ==
  IF scr = "fix_revert"
  THEN RevertKw \o <<"E","r","r","1">> \o CallSuffix \o <<LF>>
  ELSE OldPragma \o <<LF>>

MatchCRLF(scr) ==
  IF scr = "fix_revert"
  THEN RevertKw \o <<"A","b">> \o CallSuffix \o <<CR, LF>>
         \o RevertKw \o <<"Z">> \o CallSuffix \o <<CR, LF>>
  ELSE OldPragma \o <<CR, LF>> \o OldPragma \o <<CR, LF>>

NoMatchCRLF(scr) ==
  IF scr = "fix_revert"
  THEN RevertSp \o <<"O","k">> \o CallSuffix \o <<CR, LF>>
  ELSE PragmaHead \o <<"^","0",".","8",".","1","9",";">> \o <<CR, LF>>

NotUtf8(scr) == <<BadByte>> \o MatchLF(scr)

LineContents(scr) == {MatchLF(scr), MatchCRLF(scr), NoMatchCRLF(scr), NotUtf8(scr)}

NameA == {<<"A">> \o DotSol, <<"A",".","S","O","L">>,
          <<"A">> \o DotSol \o <<".","b","a","k">>, <<"A","s","o","l">>}
NameB == {<<"B">> \o DotSol, <<"B",".","t","x","t">>}
NameC == {<<"C">> \o DotSol}

\* ------------------------------------------------------------------ state
VARIABLES
  script,      \* which of the two scripts runs
  platform,    \* "posix" or "nt": os.linesep of the machine
  rootState,   \* the traversal root: "ok", "missing" or "denied"
  names,       \* file -> its name
  depthOf,     \* file -> depth of its directory below the root (0: the root)
  disk,        \* file -> bytes on disk
  pc,          \* "loop", "write", "writing", "print", "done", "aborted"
  pending,     \* os.walk: directories still to list, next first
  files,       \* the rest of `files` of the directory being iterated
  file,        \* the file of the current iteration (0: none)
  content,     \* content
  new_content, \* new_content
  out,         \* lines printed by this run
  orig,        \* file -> bytes on disk when this run started
  readCount,   \* file -> times opened for reading in this run
  wopenCount,  \* file -> times opened for writing in this run
  ioErr,       \* the unhandled exception that ended the run, or "none"
  listErr,     \* os.walk ignored a scandir error in this run
  run,         \* "first" or "second" run of the script on the tree
  prevClean    \* the first run ended with no I/O error of any kind

vars == <<script, platform, rootState, names, depthOf, disk, pc, pending, files,
          file, content, new_content, out, orig, readCount, wopenCount, ioErr,
          listErr, run, prevClean>>

env == <<script, platform, rootState, names, depthOf>>

Slots == DOMAIN disk
Zero == [f \in Slots |-> 0]

\* One file in the root, every content of up to FragCount fragments.
InitRich ==
  /\ platform = "posix"
  /\ rootState = "ok"
  /\ names \in [{1} -> {<<"A">> \o DotSol, <<"A",".","S","O","L">>}]
  /\ depthOf = [f \in {1} |-> 0]
  /\ disk \in [{1} -> RichContents(script)]

\* Two files in the root and one MaxDepth directories down; or no root.
InitTree ==
  /\ platform \in {"posix", "nt"}
  /\ rootState \in {"ok", "missing", "denied"}
  /\ IF rootState = "missing"
     THEN /\ names = <<>>
          /\ depthOf = <<>>
          /\ disk = <<>>
     ELSE /\ names \in {<<a, b, c>> : a \in NameA, b \in NameB, c \in NameC}
          /\ depthOf = <<0, 0, MaxDepth>>
          /\ disk \in {<<a, b, c>> : a \in LineContents(script),
                                    b \in LineContents(script) \ {MatchLF(script)},
                                    c \in {MatchLF(script), NoMatchCRLF(script)}}

Init ==
  /\ script \in Scripts
  /\ (InitRich \/ InitTree)
  /\ pc = "loop"
  /\ pending = <<0>>
  /\ files = <<>>
  /\ file = 0
  /\ content = <<>>
  /\ new_content = <<>>
  /\ out = <<>>
  /\ orig = disk
  /\ readCount = [f \in DOMAIN disk |-> 0]
  /\ wopenCount = [f \in DOMAIN disk |-> 0]
  /\ ioErr = "none"
  /\ listErr = FALSE
  /\ run = "first"
  /\ prevClean = FALSE

\* ------------------------------------------------------------- the walk
RECURSIVE Ascending(_)
Ascending(S) ==
  IF S = {} THEN <<>>
  ELSE LET m == CHOOSE x \in S : \A y \in S : x <= y
       IN  <<m>> \o Ascending(S \ {m})

\* `files` of the (root, dirs, files) tuple os.walk yields for directory d
FilesIn(d) == Ascending({f \in Slots : depthOf[f] = d})

\* `dirs` of that tuple: the directories form a chain that ends at the
\* directory of the deepest file
NoSubdirs(d) == <<>>

Subdirs(d) == IF \E f \in Slots : depthOf[f] > d THEN <<d + 1>> ELSE <<>>

\* new_content != content
AlwaysChanged(old, new) == TRUE

Changed(old, new) == new # old

\* new_content = re.sub(pattern, replacement, content)
NewContent(scr, text) == Sub(scr, text)

\* The line print() writes for a rewritten file.
ReportLine(scr, f) ==
  IF scr = "fix_revert" THEN <<"Fixed", f>> ELSE <<"Updated:", f>>

DoneLine == <<"Done!">>

NextFile ==
  /\ files' = Tail(files)
  /\ file' = 0
  /\ content' = <<>>
  /\ new_content' = <<>>
  /\ pc' = "loop"

Abort(e) ==
  /\ pc' = "aborted"
  /\ ioErr' = e

\* os.walk lists the next directory and yields its tuple; the directory's
\* subdirectories are walked after the loop body has seen its files.
ListDir ==
  /\ pc = "loop" /\ files = <<>> /\ pending # <<>>
  /\ Head(pending) = 0 => rootState = "ok"
  /\ files' = FilesIn(Head(pending))
  /\ pending' = Subdirs(Head(pending)) \o Tail(pending)
  /\ UNCHANGED <<env, disk, pc, file, content, new_content, out, orig,
                 readCount, wopenCount, ioErr, listErr, run, prevClean>>

\* scandir() raises OSError (the root is missing or may not be listed, a
\* subdirectory may not be listed): os.walk has no onerror and goes on.
ListDirRaise ==
  /\ pc = "loop" /\ files = <<>> /\ pending # <<>>
  /\ Head(pending) = 0 => rootState # "ok"
  /\ Abort("walk")
  /\ UNCHANGED <<env, disk, pending, files, file, content, new_content, out,
                 orig, readCount, wopenCount, listErr, run, prevClean>>

ListDirError ==
  /\ pc = "loop" /\ files = <<>> /\ pending # <<>>
  /\ Head(pending) = 0 => rootState # "ok"
  /\ pending' = Tail(pending)
  /\ listErr' = TRUE
  /\ UNCHANGED <<env, disk, pc, files, file, content, new_content, out, orig,
                 readCount, wopenCount, ioErr, run, prevClean>>

\* if file.endswith('.sol') is false: the next file
SkipFile ==
  /\ pc = "loop" /\ files # <<>>
  /\ ~IsSol(names[Head(files)])
  /\ NextFile
  /\ UNCHANGED <<env, disk, pending, out, orig, readCount, wopenCount, ioErr,
                 listErr, run, prevClean>>

\* open(file_path, 'r'), f.read(), re.sub and the comparison
ReadFile ==
  /\ pc = "loop" /\ files # <<>>
  /\ LET f == Head(files)
         text == Decode(disk[f])
         new == NewContent(script, text)
     IN  /\ IsSol(names[f])
         /\ Decodable(disk[f])
         /\ readCount' = [readCount EXCEPT ![f] = @ + 1]
         /\ IF Changed(text, new)
            THEN /\ file' = f
                 /\ content' = text
                 /\ new_content' = new
                 /\ pc' = "write"
                 /\ files' = files
            ELSE NextFile
  /\ UNCHANGED <<env, disk, pending, out, orig, wopenCount, ioErr, listErr,
                 run, prevClean>>

\* open() or read() raises: the file is gone or may not be read, or its
\* bytes are not UTF-8.  Nothing catches the exception.
ReadFailContinue ==
  /\ pc = "loop" /\ files # <<>>
  /\ IsSol(names[Head(files)])
  /\ \E e \in {"open_r"} \cup (IF Decodable(disk[Head(files)]) THEN {} ELSE {"decode"}) :
       ioErr' = e
  /\ readCount' = [readCount EXCEPT ![Head(files)] = @ + 1]
  /\ NextFile
  /\ UNCHANGED <<env, disk, pending, out, orig, wopenCount, listErr, run,
                 prevClean>>

ReadFail ==
  /\ pc = "loop" /\ files # <<>>
  /\ IsSol(names[Head(files)])
  /\ \E e \in {"open_r"} \cup (IF Decodable(disk[Head(files)]) THEN {} ELSE {"decode"}) :
       Abort(e)
  /\ readCount' = [readCount EXCEPT ![Head(files)] = @ + 1]
  /\ UNCHANGED <<env, disk, pending, files, file, content, new_content, out,
                 orig, wopenCount, listErr, run, prevClean>>

\* open(file_path, 'w'): the file is truncated
OpenWrite ==
  /\ pc = "write"
  /\ disk' = [disk EXCEPT ![file] = <<>>]
  /\ wopenCount' = [wopenCount EXCEPT ![file] = @ + 1]
  /\ pc' = "writing"
  /\ UNCHANGED <<env, pending, files, file, content, new_content, out, orig,
                 readCount, ioErr, listErr, run, prevClean>>

\* open(file_path, 'w') raises: the file is left as it was
OpenWriteFail ==
  /\ pc = "write"
  /\ Abort("open_w")
  /\ UNCHANGED <<env, disk, pending, files, file, content, new_content, out,
                 orig, readCount, wopenCount, listErr, run, prevClean>>

\* f.write(new_content) and the close that ends the with block
WriteCloseRaw ==
  /\ pc = "writing"
  /\ disk' = [disk EXCEPT ![file] = new_content]
  /\ pc' = "print"
  /\ UNCHANGED <<env, pending, files, file, content, new_content, out, orig,
                 readCount, wopenCount, ioErr, listErr, run, prevClean>>

WriteClose ==
  /\ pc = "writing"
  /\ disk' = [disk EXCEPT ![file] = Encode(new_content, platform)]
  /\ pc' = "print"
  /\ UNCHANGED <<env, pending, files, file, content, new_content, out, orig,
                 readCount, wopenCount, ioErr, listErr, run, prevClean>>

\* the write or the flush on close raises (disk full): none, some or all of
\* the bytes have reached the file
WriteFail ==
  /\ pc = "writing"
  /\ \E k \in 0..Len(Encode(new_content, platform)) :
       disk' = [disk EXCEPT ![file] = SubSeq(Encode(new_content, platform), 1, k)]
  /\ Abort("write")
  /\ UNCHANGED <<env, pending, files, file, content, new_content, out, orig,
                 readCount, wopenCount, listErr, run, prevClean>>

\* print(f"Fixed {file_path}") / print(f"Updated: {file_path}")
PrintPath ==
  /\ pc = "print"
  /\ out' = Append(out, ReportLine(script, file))
  /\ NextFile
  /\ UNCHANGED <<env, disk, pending, orig, readCount, wopenCount, ioErr,
                 listErr, run, prevClean>>

\* os.walk is exhausted: fix_solidity_version prints "Done!", the script ends
Finish ==
  /\ pc = "loop" /\ files = <<>> /\ pending = <<>>
  /\ out' = IF script = "fix_solidity_version" THEN Append(out, DoneLine) ELSE out
  /\ pc' = "done"
  /\ UNCHANGED <<env, disk, pending, files, file, content, new_content, orig,
                 readCount, wopenCount, ioErr, listErr, run, prevClean>>

\* The operator runs the same script once more on the tree the first run left.
Rerun ==
  /\ pc = "done" /\ run = "first"
  /\ run' = "second"
  /\ prevClean' = ~listErr
  /\ pc' = "loop"
  /\ pending' = <<0>>
  /\ out' = <<>>
  /\ orig' = disk
  /\ readCount' = Zero
  /\ wopenCount' = Zero
  /\ listErr' = FALSE
  /\ UNCHANGED <<env, disk, files, file, content, new_content, ioErr>>

Next ==
  \/ ListDir
  \/ ListDirError
  \/ SkipFile
  \/ ReadFile
  \/ ReadFail
  \/ OpenWrite
  \/ OpenWriteFail
  \/ WriteClose
  \/ WriteFail
  \/ PrintPath
  \/ Finish
  \/ Rerun

Spec == Init /\ [][Next]_vars

\* ======================================================================
\* Properties
\* ======================================================================
\* The name's last four characters are ".sol"
SolName(f) ==
  /\ Len(names[f]) >= 4
  /\ SubSeq(names[f], Len(names[f]) - 3, Len(names[f])) = DotSol

\* Path lines printed for file f in this run
Reported(f) == Cardinality({k \in 1..Len(out) : Len(out[k]) = 2 /\ out[k][2] = f})

\* The bytes a complete rewrite of file f leaves, from the run's original
Rewritten(f) == Encode(Sub(script, Decode(orig[f])), platform)

\* The substitution changes the text of file f
Differs(f) == Sub(script, Decode(orig[f])) # Decode(orig[f])

\* The read of f raised
ReadRaised(f) == ioErr \in {"open_r", "decode"} /\ files # <<>> /\ Head(files) = f

\* The loop iteration of '.sol' file f has begun / has run to its end
Begun(f) == readCount[f] > 0
Completed(f) == Begun(f) /\ (files = <<>> \/ Head(files) # f)

\* No exception and no ignored listing error in this run
Clean == ioErr = "none" /\ ~listErr

IsPrefix(p, s) == Len(p) <= Len(s) /\ SubSeq(s, 1, Len(p)) = p

\* ---------------------------------------------------------------- C1
\* C1 as stated: for every '.sol' file that was read, once its iteration or
\* the run is over, the file was opened for writing iff the substituted
\* content differs, and its path was printed (once) iff it was overwritten.
C1_Original ==
  \A f \in Slots :
    (SolName(f) /\ Begun(f) /\ ~ReadRaised(f) /\ (Completed(f) \/ pc \in {"done", "aborted"}))
      => /\ (wopenCount[f] > 0) <=> Differs(f)
         /\ (Reported(f) = 1) <=> (wopenCount[f] > 0)
         /\ Reported(f) <= 1

\* C1 amended: a '.sol' file whose iteration ran to its end without an
\* exception is overwritten (opened for writing once, holding the whole new
\* content) iff the substituted content differs from the content read, and
\* its path is printed once iff it was overwritten.  In every state a path
\* is printed at most once and only for a file that was overwritten, and a
\* '.sol' file with no match is never opened for writing and never reported.
\* A file whose open-for-write or write raised is not reported.
C1_Amended ==
  \A f \in Slots :
    LET differs == Differs(f)
        rew == Rewritten(f)
        rep == Reported(f)
    IN  /\ (SolName(f) /\ Completed(f)) =>
             /\ wopenCount[f] = (IF differs THEN 1 ELSE 0)
             /\ rep = wopenCount[f]
             /\ disk[f] = (IF differs THEN rew ELSE orig[f])
        /\ rep <= 1
        /\ rep = 1 => (wopenCount[f] = 1 /\ disk[f] = rew)
        /\ (Decodable(orig[f]) /\ ~differs) =>
             (wopenCount[f] = 0 /\ rep = 0 /\ disk[f] = orig[f])
        /\ (pc = "aborted" /\ files # <<>> /\ Head(files) = f) => rep = 0

\* One file rewritten and reported, another read, left alone and not reported.
C1_Witness ==
  /\ pc = "done"
  /\ \E f, g \in Slots :
       /\ SolName(f) /\ Differs(f) /\ Reported(f) = 1 /\ disk[f] = Rewritten(f)
       /\ SolName(g) /\ ~Differs(g) /\ readCount[g] = 1 /\ wopenCount[g] = 0

\* ---------------------------------------------------------------- C2
\* C2: when the first run ended with no I/O error, the second run of the
\* same script opens no file for writing and prints no path.
C2_Idempotent ==
  (run = "second" /\ prevClean) =>
     \A f \in Slots : wopenCount[f] = 0 /\ Reported(f) = 0

\* ---------------------------------------------------------------- C3
\* C3 as stated, outside the moment a file is open for writing: every file
\* holds its original bytes or the substitution applied to them.
C3_Original ==
  pc # "writing" =>
    \A f \in Slots : disk[f] = orig[f] \/ disk[f] = Sub(script, orig[f])

\* C3 amended: every file holds its original bytes, or a prefix of the bytes
\* of the full substitution result (every non-overlapping match replaced
\* once, left to right, in the decoded text, written with the platform's
\* line ends); it holds less than the whole result only while the file is
\* open for writing and after a write that raised, and only '.sol' files
\* change at all.
C3_Amended ==
  \A f \in Slots :
    \/ disk[f] = orig[f]
    \/ LET rew == Rewritten(f)
       IN  /\ IsPrefix(disk[f], rew)
           /\ (pc # "writing" /\ ioErr # "write") => disk[f] = rew
           /\ SolName(f) /\ wopenCount[f] > 0

\* A write raised and left a file holding part of the new content, after an
\* earlier rewrite in the run changed the line ends of a file.
C3_Witness ==
  /\ ioErr = "write"
  /\ \E f \in Slots :
       /\ disk[f] # <<>> /\ disk[f] # orig[f] /\ disk[f] # Rewritten(f)
       /\ IsPrefix(disk[f], Rewritten(f))
  /\ \E g \in Slots :
       /\ Reported(g) = 1
       /\ disk[g] = Rewritten(g) /\ disk[g] # Sub(script, orig[g])

\* ---------------------------------------------------------------- C4
\* An occurrence of revert<Identifier>(); at position i: "revert", an
\* uppercase letter, alphanumerics, then "();".
RevertOccursAt(s, i) ==
  /\ HasAt(s, i, RevertKw)
  /\ i + 6 <= Len(s) /\ s[i + 6] \in Upper
  /\ \E j \in (i + 7)..Len(s) :
       /\ \A k \in (i + 7)..(j - 1) : s[k] \in Alnum
       /\ HasAt(s, j, CallSuffix)

RevertOccurrences(s) == {i \in 1..Len(s) : RevertOccursAt(s, i)}

\* C4: after a complete run of fix_revert, no '.sol' file holds an
\* occurrence of revert<Identifier>(); any more, each occurrence has gained
\* exactly one space, and the file is reported once iff it held one.
C4_AllCorrected ==
  (pc = "done" /\ Clean /\ script = "fix_revert") =>
    \A f \in Slots : SolName(f) =>
      /\ RevertOccurrences(Decode(disk[f])) = {}
      /\ Len(Decode(disk[f])) =
           Len(Decode(orig[f])) + Cardinality(RevertOccurrences(Decode(orig[f])))
      /\ Reported(f) = (IF RevertOccurrences(Decode(orig[f])) = {} THEN 0 ELSE 1)

\* C4 where nothing nests: a file with an occurrence is rewritten in one pass.
C4_Witness ==
  /\ pc = "done" /\ Clean /\ script = "fix_revert"
  /\ \E f \in Slots :
       /\ SolName(f)
       /\ Cardinality(RevertOccurrences(Decode(orig[f]))) = 2
       /\ RevertOccurrences(Decode(disk[f])) = {}
       /\ Reported(f) = 1

\* ---------------------------------------------------------------- C5
PragmaOccurrences(s) == {i \in 1..Len(s) : HasAt(s, i, OldPragma)}

\* C5: after a complete run of fix_solidity_version, in every '.sol' file
\* NewPragma stands wherever OldPragma stood, every character outside those
\* places is the one that was there, no OldPragma is left, and the file is
\* reported iff it held one; a file without OldPragma keeps its bytes.
C5_PragmaReplaced ==
  (pc = "done" /\ Clean /\ script = "fix_solidity_version") =>
    \A f \in Slots : SolName(f) =>
      LET a == Decode(orig[f])
          b == Decode(disk[f])
          occ == PragmaOccurrences(a)
      IN  /\ Len(b) = Len(a)
          /\ \A i \in occ : HasAt(b, i, NewPragma)
          /\ \A i \in 1..Len(a) :
               (\A j \in occ : i < j \/ i >= j + Len(OldPragma)) => b[i] = a[i]
          /\ PragmaOccurrences(b) = {}
          /\ Reported(f) = (IF occ = {} THEN 0 ELSE 1)
          /\ occ = {} => disk[f] = orig[f]

\* A file with the old pragma was rewritten and a file with another pragma
\* was read and left alone.
C5_Witness ==
  /\ pc = "done" /\ Clean /\ script = "fix_solidity_version"
  /\ \E f, g \in Slots :
       /\ SolName(f) /\ PragmaOccurrences(Decode(orig[f])) # {}
       /\ HasAt(disk[f], 1, NewPragma) /\ Reported(f) = 1
       /\ SolName(g) /\ orig[g] = NoMatchCRLF(script) /\ readCount[g] = 1
       /\ disk[g] = orig[g] /\ Reported(g) = 0

\* ---------------------------------------------------------------- C6
\* C6: a file whose name does not end with ".sol" is never opened for
\* reading, never opened for writing, never reported, and keeps its bytes.
C6_Selectivity ==
  \A f \in Slots : ~SolName(f) =>
    /\ readCount[f] = 0
    /\ wopenCount[f] = 0
    /\ Reported(f) = 0
    /\ disk[f] = orig[f]

\* The run is over, it rewrote a '.sol' file, and it passed over a file
\* named A.SOL whose content holds a match.
C6_Witness ==
  /\ pc = "done"
  /\ \E f, g \in Slots :
       /\ names[f] = <<"A",".","S","O","L">> /\ Differs(f) /\ readCount[f] = 0
       /\ SolName(g) /\ Reported(g) = 1

\* ---------------------------------------------------------------- C7
\* C7: when a run ends with no I/O error, every '.sol' file, at any depth,
\* has been read once, written once iff its content differs, reported once
\* iff written, and holds the substitution result.
C7_RecursiveDiscovery ==
  (pc = "done" /\ Clean) =>
    \A f \in Slots : SolName(f) =>
      LET differs == Differs(f)
      IN  /\ readCount[f] = 1
          /\ wopenCount[f] = (IF differs THEN 1 ELSE 0)
          /\ Reported(f) = (IF differs THEN 1 ELSE 0)
          /\ disk[f] = (IF differs THEN Rewritten(f) ELSE orig[f])

\* A '.sol' file three or more directories below the root was rewritten.
C7_Witness ==
  /\ pc = "done" /\ Clean
  /\ \E f \in Slots :
       /\ depthOf[f] >= 3 /\ depthOf[f] = MaxDepth
       /\ SolName(f) /\ Differs(f) /\ readCount[f] = 1
       /\ disk[f] = Rewritten(f) /\ Reported(f) = 1

\* ---------------------------------------------------------------- C8
\* C8: with no root directory the run raises nothing, reads and writes no
\* file, prints no path, and ends normally; fix_solidity_version has then
\* printed exactly "Done!".
C8_MissingRoot ==
  rootState = "missing" =>
    /\ pc \in {"loop", "done"}
    /\ ioErr = "none"
    /\ files = <<>>
    /\ \A f \in Slots : readCount[f] = 0 /\ wopenCount[f] = 0
    /\ \A k \in 1..Len(out) : out[k] = DoneLine
    /\ pc = "done" =>
         out = (IF script = "fix_solidity_version" THEN <<DoneLine>> ELSE <<>>)
    /\ (pc = "loop" /\ pending = <<>>) => ENABLED Finish

C8_Witness ==
  /\ rootState = "missing" /\ listErr
  /\ pc = "done" /\ script = "fix_solidity_version" /\ out = <<DoneLine>>

\* ---------------------------------------------------------------- C9
\* C9 as stated: with a root that may not be listed the run does not end
\* normally and "Done!" is not printed.
C9_Original ==
  rootState = "denied" =>
    /\ pc # "done"
    /\ \A k \in 1..Len(out) : out[k] # DoneLine

\* C9 amended: with a root that exists but may not be listed the run raises
\* nothing: os.walk ignores the error, no file is read, written or reported,
\* the run ends normally and fix_solidity_version prints "Done!".
C9_Amended ==
  rootState = "denied" =>
    /\ pc \in {"loop", "done"}
    /\ ioErr = "none"
    /\ files = <<>>
    /\ \A f \in Slots :
         readCount[f] = 0 /\ wopenCount[f] = 0 /\ disk[f] = orig[f]
    /\ \A k \in 1..Len(out) : out[k] = DoneLine
    /\ pc = "done" =>
         out = (IF script = "fix_solidity_version" THEN <<DoneLine>> ELSE <<>>)
    /\ (pc = "loop" /\ pending = <<>>) => ENABLED Finish

\* The run over an unlistable root ended normally with "Done!", files with
\* matches below the root untouched.
C9_Witness ==
  /\ rootState = "denied" /\ listErr
  /\ pc = "done" /\ script = "fix_solidity_version" /\ out = <<DoneLine>>
  /\ \E f \in Slots : SolName(f) /\ Differs(f) /\ disk[f] = orig[f]

\* ---------------------------------------------------------------- C10
\* Files the loop has not reached: the rest of `files` and the files of
\* directories not yet listed.
NotReached(f) ==
  \/ \E k \in 2..Len(files) : files[k] = f
  \/ pending # <<>> /\ depthOf[f] >= Head(pending)

\* The unhandled exception ends the run at the file it was raised for: no
\* file after it is read, written or reported, the files rewritten before it
\* keep their new content, nothing more happens and "Done!" is not printed.
AbortsAtFirstFailure ==
  ioErr # "none" =>
    /\ pc = "aborted"
    /\ ~ENABLED Next
    /\ files # <<>>
    /\ \A k \in 1..Len(out) : out[k] # DoneLine
    /\ \A f \in Slots :
         /\ NotReached(f) =>
              /\ readCount[f] = 0 /\ wopenCount[f] = 0
              /\ Reported(f) = 0 /\ disk[f] = orig[f]
         /\ (f # Head(files) /\ wopenCount[f] > 0) =>
              (disk[f] = Rewritten(f) /\ Reported(f) = 1)
         /\ (f # Head(files) /\ ~NotReached(f) /\ SolName(f)) => readCount[f] = 1

DoneOnlyAfterAll ==
  (\E k \in 1..Len(out) : out[k] = DoneLine) =>
    \A f \in Slots : SolName(f) => Completed(f)

\* C10 as stated: the run aborts at the first file I/O failure, and "Done!"
\* is printed only after every '.sol' file under the root has been processed.
C10_Original == AbortsAtFirstFailure /\ DoneOnlyAfterAll

\* C10 amended: the run aborts at the first file I/O failure; "Done!" is
\* printed only when the walk has ended with no exception, and then every
\* '.sol' file has been processed unless os.walk passed over a directory it
\* could not list (a listing error is ignored and aborts nothing).
C10_Amended ==
  /\ AbortsAtFirstFailure
  /\ (\E k \in 1..Len(out) : out[k] = DoneLine) =>
       /\ pc = "done" /\ ioErr = "none" /\ script = "fix_solidity_version"
       /\ out[Len(out)] = DoneLine
       /\ ~listErr => \A f \in Slots : SolName(f) => Completed(f)

\* The write of the second file raised after the first file was rewritten
\* and reported; the deep file, which has a match, was never read.
C10_Witness ==
  /\ pc = "aborted" /\ ioErr = "write" /\ script = "fix_solidity_version"
  /\ files # <<>> /\ Head(files) = 2
  /\ Reported(1) = 1 /\ disk[1] = Rewritten(1) /\ disk[1] # orig[1]
  /\ 3 \in Slots /\ SolName(3) /\ Differs(3) /\ readCount[3] = 0
====
